---- MODULE Spec2Model ----
(***************************************************************************)
(* Model of the memory-management kernel of rust-airllm-style-runtime:     *)
(*   crates/runtime/src/memory/arena.rs       ModelArena (bump allocator)  *)
(*   crates/runtime/src/scheduler/manager.rs  Scheduler (eviction policy)  *)
(*                                                                         *)
(* Pointers handed out by ModelArena::alloc are modelled by their byte     *)
(* distance from memory_start.  usize is a machine word of WordBits bits;  *)
(* an overflowing `+`, `*` or `+=` panics in a build with overflow checks  *)
(* and wraps modulo 2^WordBits in a build without them, so both outcomes   *)
(* are produced.  A write outside the owned region is undefined behaviour: *)
(* the process either dies or carries on.                                  *)
(***************************************************************************)
EXTENDS Integers, Naturals, Sequences, FiniteSets, TLC

(***************************************************************************)
(* Bounds of the model.                                                    *)
(***************************************************************************)
\* Width of usize in bits (scaled down; 1 MB = 2^20 still fits in a word).
WordBits == 24
\* Layer identifiers run over 0..MaxLayerId.
MaxLayerId == 1
\* At most MaxAllocs successful allocations between two resets.
MaxAllocs == 3
\* Polling iterations counted after stop() (the count stops there).
MaxLatePolls == 2

(***************************************************************************)
(* Program constants.                                                      *)
(***************************************************************************)
\* arena.rs:21 `capacity_mb * 1024 * 1024`
KB == 1024
MB == KB * KB
\* arena.rs:25 `Layout::from_size_align(capacity_bytes, 32)`
ALIGN == 32

Modulus == 2 ^ WordBits
USIZE_MAX == Modulus - 1
\* isize::MAX, the largest size a Layout may have once rounded up to ALIGN
ISIZE_MAX == (Modulus \div 2) - 1

\* Release-build arithmetic on usize.
WrapAdd(a, b) == (a + b) % Modulus
WrapMul(a, b) == (a * b) % Modulus
\* The condition under which a build with overflow checks panics.
AddOverflows(a, b) == a + b > USIZE_MAX
MulOverflows(a, b) == a * b > USIZE_MAX

(***************************************************************************)
(* Inputs.                                                                 *)
(***************************************************************************)
\* capacity_mb arguments of ModelArena::new / Scheduler::boot: none, the
\* values of the tests, and the first ones whose byte count leaves the word.
MbInputs == {0, 1, 2, Modulus \div MB, (Modulus \div MB) + 1}
\* size arguments of alloc / request_load: the empty request, one byte, the
\* sizes of the scheduler's tests (0.5 MB, 0.6 MB and 2 MB, manager.rs:76,83,97),
\* 1 MB, and the largest value of the word.
Sizes == {0, 1, MB \div 2, (6 * MB) \div 10, MB, 2 * MB, USIZE_MAX}
LayerIds == 0 .. MaxLayerId

VARIABLES
    status,         \* "running", "failed" (construction returned Err),
                    \* "panicked" (arithmetic overflow panic), "crashed" (UB)
    capacity,       \* ModelArena.capacity
    offset,         \* ModelArena.offset
    loaded_layers,  \* Scheduler.loaded_layers
    call,           \* the last call made and what it returned
    handles,        \* ranges a caller of ModelArena::alloc holds since the
                    \* last reset (the Scheduler's callers hold none here)
    oomSizes,       \* sizes for which request_load has returned OOM (at
                    \* most one of them is remembered)
    prev,           \* the call made before the last one: its name and, when
                    \* the last call is a reset or an unload_all, its
                    \* arguments and result
    retained,       \* the first non-empty range handed out before the last
                    \* reset, kept by a caller across that reset (none: {})
    successes,      \* the layer_ids of the request_load calls that returned
                    \* LoadSuccess since the last unload_all, in call order
    stop_signal,    \* SystemMonitor.stop_signal
    monitor,        \* where the monitor's thread is: "spawned", "check" (at
                    \* the loop condition), "poll", "sleep" or "done"
    late_polls      \* polling iterations completed since stop() was called

vars == <<status, capacity, offset, loaded_layers, call, handles, oomSizes, prev,
         retained, successes, stop_signal, monitor, late_polls>>
\* The state of the SystemMonitor, and the state of everything else.
monitorVars == <<stop_signal, monitor, late_polls>>
runtimeVars == <<status, capacity, offset, loaded_layers, call, handles, oomSizes,
                prev, retained, successes>>

\* Values of `call`.  Fields that a call does not use stay 0.
NoCall ==
    [op |-> "none", capacity_mb |-> 0, layer_id |-> 0, size |-> 0,
     result |-> "none", ptr |-> 0, requested |-> 0, available |-> 0,
     victim |-> 0]
OpOnly(c) == [NoCall EXCEPT !.op = c.op]

(***************************************************************************)
(* ModelArena (arena.rs)                                                   *)
(***************************************************************************)
\* arena.rs:21  let capacity_bytes = capacity_mb * 1024 * 1024;
capacity_bytes(capacity_mb) == WrapMul(WrapMul(capacity_mb, KB), KB)
capacity_bytes_overflows(capacity_mb) ==
    MulOverflows(capacity_mb, KB) \/ MulOverflows(WrapMul(capacity_mb, KB), KB)

\* arena.rs:25  Layout::from_size_align(capacity_bytes, 32) is an Err when the
\* size, rounded up to the alignment, exceeds isize::MAX.
layout_ok(size) == size <= ISIZE_MAX - (ALIGN - 1)

\* ModelArena::new: the set of outcomes [status, capacity].
\*   line 21 overflows: a panic with overflow checks, the wrapped value without;
\*   line 26 AllocationFailed for an invalid layout;
\*   line 28 alloc(layout) of a zero-sized layout is undefined behaviour: null,
\*           a dangling non-null pointer, or a dead process;
\*   line 29 AllocationFailed when the allocator returns null.
new(capacity_mb) ==
    LET bytes == capacity_bytes(capacity_mb)
        Made == [status |-> "running", capacity |-> bytes]
        Failed == [status |-> "failed", capacity |-> 0]
    IN  (IF capacity_bytes_overflows(capacity_mb)
           THEN {[status |-> "panicked", capacity |-> 0]} ELSE {})
        \cup
        (IF ~layout_ok(bytes) THEN {Failed}
         ELSE IF bytes = 0 THEN {Made, Failed, [status |-> "crashed", capacity |-> 0]}
         ELSE {Made, Failed})

exceeds_or_fills(cap, off, size) == WrapAdd(off, size) >= cap

exceeds_by_two(cap, off, size) == WrapAdd(off, size) > cap + 1

\* arena.rs:41  if self.offset + size > self.capacity
exceeds(cap, off, size) == WrapAdd(off, size) > cap

out_of_memory_total(cap, off, size) ==
    [result |-> "OutOfMemory", ptr |-> 0, offset |-> off,
     requested |-> size, available |-> cap]

\* arena.rs:42-45  Err(OutOfMemory { requested, available }); nothing is written
out_of_memory(cap, off, size) ==
    [result |-> "OutOfMemory", ptr |-> 0, offset |-> off,
     requested |-> size, available |-> cap - off]

allocated_at_start(cap, off, size) ==
    [result |-> "Ok", ptr |-> 0, offset |-> WrapAdd(off, size),
     requested |-> 0, available |-> 0]

\* arena.rs:48-61  the pointer is memory_start + offset; offset += size; Ok(ptr)
allocated(cap, off, size) ==
    [result |-> "Ok", ptr |-> off, offset |-> WrapAdd(off, size),
     requested |-> 0, available |-> 0]

\* A call that never returns: a panic or a dead process.
aborted(kind, off) ==
    [result |-> kind, ptr |-> 0, offset |-> off, requested |-> 0, available |-> 0]

\* arena.rs:56  write_bytes(ptr, 0, size) stays inside the owned region
write_in_bounds(cap, off, size) == off + size <= cap

\* ModelArena::alloc: the set of outcomes of alloc(size) on an arena with
\* capacity cap and offset off.
alloc(cap, off, size) ==
    (IF AddOverflows(off, size) THEN {aborted("panicked", off)} ELSE {})
    \cup
    (IF exceeds(cap, off, size) THEN {out_of_memory(cap, off, size)}
     ELSE IF write_in_bounds(cap, off, size) THEN {allocated(cap, off, size)}
     ELSE {aborted("crashed", off), allocated(cap, off, size)})

reset_noop(off) == off

\* arena.rs:66-68  ModelArena::reset
reset(off) == 0

\* arena.rs:71-73  ModelArena::used_bytes
used_bytes == offset

\* The range [ptr, ptr + size) a successful alloc(size) hands out.
Handle(ptr, size) == [start |-> ptr, size |-> size]
\* The ranges of hs that hold at least one byte.
NonEmpty(hs) == SelectSeq(hs, LAMBDA h : h.size > 0)

(***************************************************************************)
(* Scheduler (manager.rs)                                                  *)
(***************************************************************************)
push_unless_resident(layers, layer_id) ==
    IF \E i \in 1 .. Len(layers) : layers[i] = layer_id
        THEN layers ELSE Append(layers, layer_id)

push_front(layers, layer_id) == <<layer_id>> \o layers

\* manager.rs:35  self.loaded_layers.push(layer_id)
push(layers, layer_id) == Append(layers, layer_id)

\* manager.rs:40  self.loaded_layers.first()
first(layers) == layers[1]

decide_always_oom(layers) == [decision |-> "OOM", layer_id |-> 0]

decide_never_oom(layers) ==
    [decision |-> "MustUnload", layer_id |-> IF layers # <<>> THEN first(layers) ELSE 0]

\* manager.rs:38-47  the decision taken when alloc returned an Err
decide(layers) ==
    IF layers # <<>> THEN [decision |-> "MustUnload", layer_id |-> first(layers)]
                     ELSE [decision |-> "OOM", layer_id |-> 0]

clear_noop(layers) == layers

\* manager.rs:55  self.loaded_layers.clear()
clear(layers) == <<>>

\* manager.rs:58-60  Scheduler::memory_usage
memory_usage == used_bytes

(***************************************************************************)
(* Initial states: ModelArena::new(capacity_mb) / Scheduler::boot          *)
(* (manager.rs:21-26) has returned, or has failed to.                      *)
(***************************************************************************)
Init ==
    \E capacity_mb \in MbInputs : \E made \in new(capacity_mb) :
        /\ status = made.status
        /\ capacity = made.capacity
        /\ offset = 0
        /\ loaded_layers = <<>>
        /\ call = [NoCall EXCEPT !.op = "boot", !.capacity_mb = capacity_mb,
                                 !.result = IF made.status = "running" THEN "Ok"
                                            ELSE IF made.status = "failed"
                                                 THEN "AllocationFailed"
                                                 ELSE made.status]
        /\ handles = <<>>
        /\ oomSizes = {}
        /\ prev = NoCall
        /\ successes = <<>>
        /\ retained = {}
        /\ stop_signal = FALSE
        /\ monitor = "spawned"
        /\ late_polls = 0

\* A successful allocation is taken only while fewer than MaxAllocs ranges
\* are live and fewer than MaxAllocs layers are resident (the bound of the
\* model).
WithinBound(out) ==
    out.result = "Ok" => Len(handles) < MaxAllocs /\ Len(loaded_layers) < MaxAllocs

(***************************************************************************)
(* Calls on a ModelArena.                                                  *)
(***************************************************************************)
\* arena.alloc(size)
Alloc ==
    /\ status = "running"
    /\ \E size \in Sizes : \E out \in alloc(capacity, offset, size) :
        /\ WithinBound(out)
        /\ offset' = out.offset
        /\ status' = IF out.result \in {"panicked", "crashed"} THEN out.result ELSE status
        /\ handles' = IF out.result = "Ok"
                         THEN Append(handles, Handle(out.ptr, size)) ELSE handles
        /\ call' = [NoCall EXCEPT !.op = "alloc", !.size = size, !.result = out.result,
                                  !.ptr = out.ptr, !.requested = out.requested,
                                  !.available = out.available]
        /\ prev' = OpOnly(call)
    /\ UNCHANGED <<capacity, loaded_layers, oomSizes, retained, successes>>
    /\ UNCHANGED monitorVars

\* arena.reset()
Reset ==
    /\ status = "running"
    /\ offset' = reset(offset)
    /\ handles' = <<>>
    /\ call' = [NoCall EXCEPT !.op = "reset", !.result = "Ok"]
    /\ prev' = call
    /\ retained' = IF NonEmpty(handles) # <<>> THEN {Head(NonEmpty(handles))}
                                               ELSE retained
    /\ UNCHANGED <<status, capacity, loaded_layers, oomSizes, successes>>
    /\ UNCHANGED monitorVars

(***************************************************************************)
(* Calls on a Scheduler.                                                   *)
(***************************************************************************)
\* scheduler.request_load(layer_id, size_bytes), manager.rs:29-49
RequestLoadOf(layer_ids, sizes) ==
    /\ status = "running"
    /\ \E layer_id \in layer_ids : \E size_bytes \in sizes :
       \E out \in alloc(capacity, offset, size_bytes) :
        LET decision == IF out.result = "Ok" THEN "LoadSuccess"
                        ELSE IF out.result = "OutOfMemory"
                             THEN decide(loaded_layers).decision
                             ELSE out.result
        IN
        /\ WithinBound(out)
        /\ offset' = out.offset
        /\ status' = IF out.result \in {"panicked", "crashed"} THEN out.result ELSE status
        /\ loaded_layers' = IF out.result = "Ok"
                               THEN push(loaded_layers, layer_id) ELSE loaded_layers
        /\ call' = [NoCall EXCEPT !.op = "request_load", !.layer_id = layer_id,
                                  !.size = size_bytes, !.result = decision,
                                  !.ptr = out.ptr,
                                  !.victim = IF out.result = "OutOfMemory"
                                               THEN decide(loaded_layers).layer_id
                                               ELSE 0]
        /\ oomSizes' \in IF decision = "OOM" THEN {oomSizes, {size_bytes}}
                                              ELSE {oomSizes}
        /\ prev' = OpOnly(call)
        /\ successes' = IF decision = "LoadSuccess"
                           THEN Append(successes, layer_id) ELSE successes
    /\ UNCHANGED <<capacity, handles, retained>>
    /\ UNCHANGED monitorVars

RequestLoad == RequestLoadOf(LayerIds, Sizes)

\* scheduler.unload_all(), manager.rs:52-56
UnloadAll ==
    /\ status = "running"
    /\ offset' = reset(offset)
    /\ loaded_layers' = clear(loaded_layers)
    /\ call' = [NoCall EXCEPT !.op = "unload_all", !.result = "Ok"]
    /\ prev' = call
    /\ successes' = <<>>
    /\ UNCHANGED <<status, capacity, handles, oomSizes, retained>>
    /\ UNCHANGED monitorVars

NextArena == Alloc \/ Reset
SpecArena == Init /\ [][NextArena]_vars

Next == RequestLoad \/ UnloadAll
Spec == Init /\ [][Next]_vars

\* A ModelArena is either used on its own or owned by a Scheduler, whose
\* `arena` field is private (manager.rs:5): the calls of the two never mix.
OnItsOwn == call.op \in {"boot", "alloc", "reset"}
InScheduler == call.op \in {"boot", "request_load", "unload_all"}
NextAll ==
    \/ OnItsOwn /\ Alloc
    \/ OnItsOwn /\ Reset
    \/ InScheduler /\ RequestLoad
    \/ InScheduler /\ UnloadAll
SpecAll == Init /\ [][NextAll]_vars

(***************************************************************************)
(* The SystemMonitor (monitor.rs).  SystemMonitor::start has returned in   *)
(* the initial states: the flag is false and the thread is spawned.        *)
(***************************************************************************)
\* The thread's next position in a loop that never looks at the flag.
after_deaf(pc, signal) ==
    CASE pc = "spawned" -> "check"
      [] pc = "check"   -> "poll"
      [] pc = "poll"    -> "sleep"
      [] pc = "sleep"   -> "check"
      [] OTHER          -> pc

\* The thread's next position (monitor.rs:15-45), `signal` being the value
\* that `signal_clone.load` returns at the loop condition.
after(pc, signal) ==
    CASE pc = "spawned" -> "check"
      [] pc = "check"   -> IF signal THEN "done" ELSE "poll"
      [] pc = "poll"    -> "sleep"
      [] pc = "sleep"   -> "check"
      [] OTHER          -> pc

\* One step of the thread from position pc.
Thread(pc) ==
    /\ monitor = pc
    /\ monitor' = after(pc, stop_signal)
    /\ late_polls' = IF pc = "sleep" /\ stop_signal /\ late_polls < MaxLatePolls
                        THEN late_polls + 1 ELSE late_polls
    /\ UNCHANGED stop_signal
    /\ UNCHANGED runtimeVars

\* System::new_all, the pid and the first println, monitor.rs:17-22
MonitorBegin == Thread("spawned")
\* `while !signal_clone.load(Relaxed)`, monitor.rs:24, and on leaving the
\* loop the last println, monitor.rs:44
MonitorCheck == Thread("check")
\* refresh_all and the report, monitor.rs:28-40
MonitorPoll == Thread("poll")
\* thread::sleep(interval_ms), monitor.rs:42
MonitorSleep == Thread("sleep")
MonitorStep == MonitorBegin \/ MonitorCheck \/ MonitorPoll \/ MonitorSleep

\* monitor.stop(), monitor.rs:50-52
Stop ==
    /\ stop_signal' = TRUE
    /\ UNCHANGED <<monitor, late_polls>>
    /\ UNCHANGED runtimeVars

\* The main thread of run_inference.rs beside the monitor: it loads every
\* layer under layer id 0 (line 32).
Inference == RequestLoadOf({0}, Sizes)

NextMonitor ==
    \/ Inference
    \/ UnloadAll
    \/ Stop
    \/ MonitorBegin
    \/ MonitorCheck
    \/ MonitorPoll
    \/ MonitorSleep
\* The operating system schedules the thread again and again.
SpecMonitor == Init /\ [][NextMonitor]_vars /\ WF_vars(MonitorStep)

(***************************************************************************)
(* Claims about ModelArena, checked under SpecArena.                       *)
(***************************************************************************)
RECURSIVE SumSizes(_)
SumSizes(hs) == IF hs = <<>> THEN 0 ELSE hs[1].size + SumSizes(Tail(hs))

\* Each range begins where the one before it ended, the first at 0.
BackToBack(hs) ==
    \A i \in 1 .. Len(hs) :
        hs[i].start = IF i = 1 THEN 0 ELSE hs[i - 1].start + hs[i - 1].size

\* No byte lies in two of the ranges.
PairwiseDisjoint(hs) ==
    \A i, j \in 1 .. Len(hs) :
        i < j => \/ hs[i].start + hs[i].size <= hs[j].start
                 \/ hs[j].start + hs[j].size <= hs[i].start

\* C1: on a fresh or just-reset arena, as long as the sizes requested so
\* far sum to at most the capacity, every alloc succeeds, its range begins
\* exactly where the previous one ended (the first at 0), the ranges handed
\* out are pairwise disjoint, and used_bytes() is the sum of the sizes.
\* (The ranges in `handles` are those of the calls that succeeded since the
\* reset, so the statement also covers runs with failed calls in between.)
C1_AllocWithinCapacity ==
    [][(call'.op = "alloc" /\ SumSizes(handles) + call'.size <= capacity)
        => /\ call'.result = "Ok"
           /\ call'.ptr = SumSizes(handles)
           /\ handles' = Append(handles, Handle(call'.ptr, call'.size))
           /\ BackToBack(handles')
           /\ PairwiseDisjoint(handles')
           /\ used_bytes' = SumSizes(handles')
           /\ used_bytes' = SumSizes(handles) + call'.size]_vars

\* Three non-empty ranges have been handed out one after the other and fill
\* the arena exactly.
C1_Witness ==
    /\ call.op = "alloc" /\ call.result = "Ok"
    /\ Len(handles) = 3
    /\ \A i \in 1 .. 3 : handles[i].size > 0
    /\ SumSizes(handles) = capacity
    /\ used_bytes = capacity

\* C2: an alloc(size) with size > capacity - offset, where offset + size
\* does not overflow, returns OutOfMemory{requested: size, available:
\* capacity - offset} and leaves offset and capacity as they were, so
\* used_bytes() is the same before and after.
C2_OutOfMemoryNoMutation ==
    [][(/\ call'.op = "alloc"
        /\ call'.size > capacity - offset
        /\ ~AddOverflows(offset, call'.size))
        => /\ call'.result = "OutOfMemory"
           /\ call'.requested = call'.size
           /\ call'.available = capacity - offset
           /\ offset' = offset
           /\ capacity' = capacity
           /\ used_bytes' = used_bytes]_vars

\* A request one byte too large has been refused on a partly used arena.
C2_Witness ==
    /\ call.op = "alloc" /\ call.result = "OutOfMemory"
    /\ used_bytes > 0
    /\ call.requested = call.available + 1

\* C3: reset() leaves used_bytes() = 0 and the capacity unchanged, whatever
\* came before, and an alloc(capacity) made right after it succeeds and
\* brings used_bytes() to exactly the capacity.
C3_ResetThenFullAlloc ==
    [][/\ call'.op = "reset" => used_bytes' = 0 /\ capacity' = capacity
       /\ (call.op = "reset" /\ call'.op = "alloc" /\ call'.size = capacity)
            => call'.result = "Ok" /\ call'.ptr = 0 /\ used_bytes' = capacity]_vars

\* A refused allocation on a partly used arena, then reset(), then an
\* alloc(capacity) that filled the whole arena.
C3_Witness ==
    /\ call.op = "alloc" /\ call.result = "Ok" /\ call.size = capacity
    /\ prev.op = "reset"
    /\ capacity > 0
    /\ used_bytes = capacity

(***************************************************************************)
(* Claims about Scheduler, checked under Spec.                             *)
(***************************************************************************)
\* The request of the step being taken finds room / finds none.
HasRoom(size) == memory_usage + size <= capacity
LacksRoom(size) == size > capacity - memory_usage

\* C4: a request_load(layer_id, size) made when memory_usage() + size <=
\* capacity returns LoadSuccess, leaves the resident-layer record as it was
\* with layer_id appended once at its tail, and makes memory_usage() grow
\* by exactly size.
C4_LoadSuccessAppends ==
    [][(call'.op = "request_load" /\ HasRoom(call'.size))
        => /\ call'.result = "LoadSuccess"
           /\ loaded_layers' = Append(loaded_layers, call'.layer_id)
           /\ memory_usage' = memory_usage + call'.size]_vars

\* A third layer, with another identifier than the first, has been loaded
\* behind two resident ones and has taken room.
C4_Witness ==
    /\ call.op = "request_load" /\ call.result = "LoadSuccess"
    /\ call.size > 0
    /\ Len(loaded_layers) = 3
    /\ loaded_layers[3] = call.layer_id
    /\ loaded_layers[1] # call.layer_id

\* C5: a request_load made when the arena lacks room and the record is not
\* empty returns MustUnload{layer_id: h}, h the head of the record, and
\* leaves memory_usage() and the record as they were.
C5_MustUnloadNominatesHead ==
    [][(call'.op = "request_load" /\ LacksRoom(call'.size) /\ loaded_layers # <<>>)
        => /\ call'.result = "MustUnload"
           /\ call'.victim = Head(loaded_layers)
           /\ memory_usage' = memory_usage
           /\ loaded_layers' = loaded_layers]_vars

\* C6: a request_load made when the arena lacks room and the record is
\* empty returns OOM (no arena error, no MustUnload) and leaves the
\* watermark and the empty record as they were.
C6_HardOOM ==
    [][(call'.op = "request_load" /\ LacksRoom(call'.size) /\ loaded_layers = <<>>)
        => /\ call'.result = "OOM"
           /\ memory_usage' = memory_usage
           /\ loaded_layers' = <<>>]_vars

\* A request larger than a non-empty arena has been answered OOM.
C6_Witness ==
    /\ call.op = "request_load" /\ call.result = "OOM"
    /\ capacity > 0
    /\ call.size > capacity
    /\ loaded_layers = <<>>
    /\ memory_usage = 0

\* C7: when request_load(layer_id, size) has returned MustUnload, an
\* unload_all() followed by the same request_load(layer_id, size) returns
\* LoadSuccess.
C7_MustUnloadRecoverable ==
    [][(/\ prev.op = "request_load" /\ prev.result = "MustUnload"
        /\ call.op = "unload_all"
        /\ call'.op = "request_load"
        /\ call'.layer_id = prev.layer_id /\ call'.size = prev.size)
        => call'.result = "LoadSuccess"]_vars

\* C8: once request_load(_, S) has returned OOM, no later request_load with
\* the same size S returns LoadSuccess.
C8_OOMTerminal ==
    [][(call'.op = "request_load" /\ call'.result = "LoadSuccess")
        => call'.size \notin oomSizes]_vars

\* C9: unload_all() can be called in every state of a live scheduler, an
\* empty one included; it leaves memory_usage() = 0 and the record empty,
\* and no step empties the record without bringing memory_usage() to 0.
C9_UnloadAllFlushesBoth ==
    [][/\ call'.op = "unload_all" => memory_usage' = 0 /\ loaded_layers' = <<>>
       /\ (loaded_layers # <<>> /\ loaded_layers' = <<>>) => memory_usage' = 0
       /\ status = "running" => ENABLED UnloadAll]_vars

\* unload_all() has flushed a scheduler that held layers after a request
\* was answered MustUnload.
C9_Witness ==
    /\ call.op = "unload_all"
    /\ prev.op = "request_load" /\ prev.result = "MustUnload"
    /\ memory_usage = 0
    /\ loaded_layers = <<>>

\* C10: the resident-layer record is non-empty only if memory_usage() > 0.
C10_ResidentImpliesUsed ==
    loaded_layers # <<>> => memory_usage > 0

(***************************************************************************)
(* Claims about both, checked under SpecAll unless said otherwise.         *)
(***************************************************************************)
\* C11: in every state reached by alloc, reset, request_load and unload_all
\* calls, 0 <= offset <= capacity, and no call changes the capacity fixed
\* at construction.
C11_OffsetWithinCapacity ==
    /\ [](0 <= offset /\ offset <= capacity)
    /\ [][capacity' = capacity]_vars

\* A request_load has filled the arena to its last byte behind another
\* resident layer.
C11_Witness ==
    /\ call.op = "request_load" /\ call.result = "LoadSuccess"
    /\ Len(loaded_layers) > 1
    /\ capacity > 0
    /\ offset = capacity

\* C12: alloc and request_load, successful or not, never lower offset; a
\* step lowers it only if it is a reset() or an unload_all(), and then to 0.
C12_OffsetMonotone ==
    [][/\ call'.op \in {"alloc", "request_load"} => offset' >= offset
       /\ offset' < offset => call'.op \in {"reset", "unload_all"} /\ offset' = 0]_vars

\* C13 (under Spec): the resident-layer record is the sequence of the
\* layer_ids of the request_load calls that returned LoadSuccess since the
\* last unload_all (or since boot), in order and with duplicates; a
\* request_load that does not return LoadSuccess leaves it as it was.
\* memory_usage() is the state function memory_usage: it assigns nothing.
C13_RecordIsLoadHistory ==
    /\ [](loaded_layers = successes)
    /\ [][(call'.op = "request_load" /\ call'.result # "LoadSuccess")
            => loaded_layers' = loaded_layers]_vars

\* The same layer has been loaded twice, another one in between, and a
\* request that did not fit has just been answered MustUnload.
C13_Witness ==
    /\ call.op = "request_load" /\ call.result = "MustUnload"
    /\ Len(loaded_layers) = 3
    /\ loaded_layers[1] = loaded_layers[3]
    /\ loaded_layers[1] # loaded_layers[2]

\* C14 (under Spec): for every memory_limit_mb, a Scheduler::boot /
\* ModelArena::new that succeeds yields capacity = memory_limit_mb * 1024 *
\* 1024, used_bytes() = 0 and an empty record; one that does not succeed
\* returns AllocationFailed and yields no scheduler.
C14_BootCapacity ==
    call.op = "boot" =>
        /\ call.result = "Ok" =>
              /\ status = "running"
              /\ capacity = call.capacity_mb * MB
              /\ used_bytes = 0
              /\ loaded_layers = <<>>
        /\ call.result # "Ok" =>
              /\ call.result = "AllocationFailed"
              /\ status = "failed"

\* C15 (under Spec): the protocol "request_load; on MustUnload call
\* unload_all and retry" ends after at most two request_load calls: every
\* call returns LoadSuccess, OOM or MustUnload, a call made right after
\* unload_all does not return MustUnload, and a call ends the protocol with
\* LoadSuccess only for size <= capacity and with OOM only for size >
\* capacity.
C15_ProtocolTerminates ==
    [][call'.op = "request_load"
        => /\ call'.result \in {"LoadSuccess", "OOM", "MustUnload"}
           /\ call.op = "unload_all" => call'.result # "MustUnload"
           /\ call'.result = "LoadSuccess" => call'.size <= capacity
           /\ call'.result = "OOM" => call'.size > capacity]_vars

\* C16: when offset + size exceeds the largest usize, alloc(size) and
\* request_load(_, size) report failure (OutOfMemory, MustUnload or OOM),
\* hand out no range and leave offset as it was.
C16_OverflowReportsFailure ==
    [][(call'.op \in {"alloc", "request_load"} /\ AddOverflows(offset, call'.size))
        => /\ call'.result \in {"OutOfMemory", "MustUnload", "OOM"}
           /\ offset' = offset
           /\ handles' = handles
           /\ loaded_layers' = loaded_layers]_vars

\* C17 (under Spec): memory_usage() > 0 only if the resident-layer record
\* is non-empty, and request_load returns OOM only for a size above the
\* capacity.
C17_UsedImpliesResident ==
    /\ [](memory_usage > 0 => loaded_layers # <<>>)
    /\ [][(call'.op = "request_load" /\ call'.result = "OOM")
            => call'.size > capacity]_vars

\* After layers were loaded and flushed, a request larger than the arena
\* has been answered OOM.
C17_Witness ==
    /\ call.op = "request_load" /\ call.result = "OOM"
    /\ prev.op = "unload_all"
    /\ capacity > 0
    /\ call.size > capacity

\* C18 (under Spec): request_load(layer_id, 0) returns LoadSuccess in every
\* state, a full arena included, appends layer_id to the record and leaves
\* memory_usage() as it was.
C18_ZeroSizeSucceeds ==
    [][(call'.op = "request_load" /\ call'.size = 0)
        => /\ call'.result = "LoadSuccess"
           /\ loaded_layers' = Append(loaded_layers, call'.layer_id)
           /\ memory_usage' = memory_usage]_vars

\* A zero-size request has been granted on a completely full arena.
C18_Witness ==
    /\ call.op = "request_load" /\ call.result = "LoadSuccess" /\ call.size = 0
    /\ capacity > 0
    /\ memory_usage = capacity
    /\ Len(loaded_layers) > 1

\* Two ranges share a byte.
Overlap(h, k) ==
    /\ h.size > 0 /\ k.size > 0
    /\ h.start < k.start + k.size
    /\ k.start < h.start + h.size

\* C19: the first successful allocation after reset() / unload_all() starts
\* at offset 0, so that (holding a byte) it overlaps the first non-empty
\* range handed out before the reset; two ranges handed out with no reset
\* between them never overlap.
FirstAfterReset ==
    (call'.op = "alloc" /\ call'.result = "Ok" /\ handles = <<>>)
        => (/\ call'.ptr = 0
            /\ \A r \in retained :
                  (call'.size > 0
                      => Overlap(Handle(call'.ptr, call'.size), r)))
FirstAfterUnload ==
    (call'.op = "request_load" /\ call'.result = "LoadSuccess"
        /\ loaded_layers = <<>>) => (call'.ptr = 0)
C19_AliasOnlyAcrossReset ==
    /\ [][FirstAfterReset /\ FirstAfterUnload]_vars
    /\ [](\A i, j \in 1 .. Len(handles) :
            (i < j => ~Overlap(handles[i], handles[j])))

\* C20: the monitor's thread keeps polling while stop() has not been called;
\* once stop() has been called the flag never reverts and the thread, fairly
\* scheduled, terminates after completing at most one more polling iteration;
\* its steps interleave freely with the scheduler's operations and neither
\* read nor change the state of the scheduler and the arena.
C20_MonitorStopsCooperatively ==
    /\ [](monitor = "done" => stop_signal)
    /\ ([]~stop_signal => []<>(monitor = "poll"))
    /\ [][stop_signal => stop_signal']_vars
    /\ (stop_signal ~> monitor = "done")
    /\ [](late_polls <= 1)
    /\ [](ENABLED MonitorStep <=> monitor # "done")
    /\ [][monitor' # monitor
            => /\ monitor' = after(monitor, stop_signal)
               /\ UNCHANGED runtimeVars]_vars
    /\ [][call' # call => UNCHANGED <<monitor, late_polls>>]_vars

\* stop() came in the middle of a polling iteration, between two loads of
\* the scheduler, and the thread ended after that iteration.
C20_Witness ==
    /\ monitor = "done"
    /\ late_polls = 1
    /\ call.op = "request_load"
    /\ call.result = "MustUnload"

====
